---- MODULE Spec2Model ----
(***************************************************************************)
(* Model of mne/fiff/raw.py: the Raw handle.                               *)
(*                                                                         *)
(*   Spec      Raw.__init__ : the scan of the tag directory that builds    *)
(*             rawdir, first_samp and last_samp, one loop pass per step.   *)
(*   SpecRead  read_raw_segment, Raw.__getitem__ and Raw.reload on opened  *)
(*             handles.                                                    *)
(*   SpecProj  the projection cache: _update_projector, add_proj, the      *)
(*             deactivation done by save, reads on plain and preloaded     *)
(*             handles.                                                    *)
(*   SpecData  the operations that write self._data in place: indexed      *)
(*             assignment, apply_function, apply_hilbert, filter and       *)
(*             apply_projector, interleaved with reads, add_proj, reload   *)
(*             and save.                                                   *)
(*   SpecSave  Raw.save over a time range, buffer by buffer, and the file  *)
(*             it writes opened and read again.                            *)
(*   SpecApply apply_function on a preloaded handle, sequentially and      *)
(*             through the worker pool, with indexed assignment and reload.*)
(*   SpecFail  reads and reloads of a handle one of whose data tags can    *)
(*             no longer be read from the file.                            *)
(***************************************************************************)
EXTENDS Integers, Sequences, FiniteSets, TLC

VARIABLES
    directory,  \* raw_node['directory']: the tag stream of the raw data block
    pc,         \* position inside Raw.__init__, then "done" / "error"
    k,          \* index (1-based) of the directory entry the scan is at
    loc,        \* locals of Raw.__init__: first_samp, first_skip, nskip, rawdir
    raw,        \* the attributes of the Raw object (self)
    fid,        \* the file object: "open" or "closed"
    call,       \* the last operation called on the handle, with its arguments
    ret,        \* what that operation returned or raised
    item,       \* the request made of the handle: channels and sample window
    outfile     \* the file written by the last save

vars == <<directory, pc, k, loc, raw, fid, call, ret, item, outfile>>

None == "None"

\* ------------------------------------------------------------------ bounds
MaxTags == 3        \* longest tag directory enumerated
NChan == 2          \* info['nchan']
MaxFirstSamp == 1   \* largest value of a FIFF_FIRST_SAMPLE tag
MaxSkip == 2        \* largest count of a FIFF_DATA_SKIP tag
MaxReadTags == 3    \* longest tag directory of the handles that are read
MaxProjs == 1       \* longest info['projs']
MaxEdits == 1       \* most in-place writes made to one row of self._data

\* ------------------------------------------------------------ tag streams
FIFF_FIRST_SAMPLE == "FIFF_FIRST_SAMPLE"
FIFF_DATA_SKIP == "FIFF_DATA_SKIP"
FIFF_DATA_BUFFER == "FIFF_DATA_BUFFER"
FIFF_OTHER == "FIFF_NOP"

FIFFT_DAU_PACK16 == "FIFFT_DAU_PACK16"
FIFFT_SHORT == "FIFFT_SHORT"
FIFFT_FLOAT == "FIFFT_FLOAT"
FIFFT_INT == "FIFFT_INT"
FIFFT_COMPLEX_FLOAT == "FIFFT_COMPLEX_FLOAT"
FIFFT_DOUBLE == "FIFFT_DOUBLE"

DecodableTypes ==
    {FIFFT_DAU_PACK16, FIFFT_SHORT, FIFFT_FLOAT, FIFFT_INT, FIFFT_COMPLEX_FLOAT}

\* byte sizes of the data buffers enumerated: with NChan channels they hold
\* 2 or 4 packed samples, 1 or 2 float samples, 0 or 1 complex samples
BufferSizes == {4 * NChan, 8 * NChan}

Ent(kind, type, size, data) ==
    [kind |-> kind, type |-> type, size |-> size, data |-> data]

FirstSampleTags == {Ent(FIFF_FIRST_SAMPLE, FIFFT_INT, 4, v) : v \in 0..MaxFirstSamp}
SkipTags == {Ent(FIFF_DATA_SKIP, FIFFT_INT, 4, c) : c \in 0..MaxSkip}
BufferTags(types) ==
    {Ent(FIFF_DATA_BUFFER, t, s, 0) : t \in types, s \in BufferSizes}
OtherTags == {Ent(FIFF_OTHER, FIFFT_INT, 4, 0)}

Streams(tags, n) == UNION {[1..m -> tags] : m \in 0..n}

\* ------------------------------------------------- Raw.__init__, the scan
\* rawdir entries of a skip run have ent = None
NoEnt == [kind |-> None, type |-> None, size |-> 0, data |-> 0, pos |-> 0]

Decodable(ent) == ent.type \in DecodableTypes

\* number of samples of a decodable data buffer (Python 2 integer division)
NsampOf(ent, nchan) ==
    CASE ent.type = FIFFT_DAU_PACK16 -> ent.size \div (2 * nchan)
      [] ent.type = FIFFT_SHORT -> ent.size \div (2 * nchan)
      [] ent.type = FIFFT_FLOAT -> ent.size \div (4 * nchan)
      [] ent.type = FIFFT_INT -> ent.size \div (4 * nchan)
      [] ent.type = FIFFT_COMPLEX_FLOAT -> ent.size \div (8 * nchan)

RawdirEntry(ent, first, nsamp) ==
    [ent |-> ent, first |-> first, last |-> first + nsamp - 1, nsamp |-> nsamp]

\* the locals of Raw.__init__ before the scan; first is 1-based here
InitLocals ==
    [first |-> 1, first_samp |-> 0, first_skip |-> 0, nskip |-> 0,
     rawdir |-> <<>>, self_first_samp |-> 0, err |-> None]

IndexError == "IndexError: list index out of range"
UnsupportedType == "ValueError: Cannot handle data buffers of type"

\* "Get first sample tag if it is there"
GetFirstSampleTag(L, dir) ==
    IF L.first > Len(dir) THEN [L EXCEPT !.err = IndexError]
    ELSE IF dir[L.first].kind = FIFF_FIRST_SAMPLE
    THEN [L EXCEPT !.first_samp = dir[L.first].data, !.first = @ + 1]
    ELSE L

\* "Omit initial skip", then self.first_samp = first_samp
OmitInitialSkip(L, dir) ==
    IF L.first > Len(dir) THEN [L EXCEPT !.err = IndexError]
    ELSE IF dir[L.first].kind = FIFF_DATA_SKIP
    THEN [L EXCEPT !.first_skip = dir[L.first].data, !.first = @ + 1,
                   !.self_first_samp = L.first_samp]
    ELSE [L EXCEPT !.self_first_samp = L.first_samp]

\* FoldFirstSkip without "first_skip = 0"
FoldFirstSkip_NoClear(L, nsamp) ==
    IF L.first_skip > 0
    THEN [L EXCEPT !.first_samp = @ + nsamp * L.first_skip,
                   !.self_first_samp = L.first_samp + nsamp * L.first_skip]
    ELSE L

\* the initial skip, applied once the size of the first buffer is known
FoldFirstSkip(L, nsamp) ==
    IF L.first_skip > 0
    THEN [L EXCEPT !.first_samp = @ + nsamp * L.first_skip,
                   !.self_first_samp = L.first_samp + nsamp * L.first_skip,
                   !.first_skip = 0]
    ELSE L

\* EmitSkip without "first_samp += nskip * nsamp"
EmitSkip_NoAdvance(L, nsamp) ==
    IF L.nskip > 0
    THEN [L EXCEPT !.rawdir = Append(@, RawdirEntry(NoEnt, L.first_samp,
                                                   L.nskip * nsamp)),
                   !.nskip = 0]
    ELSE L

\* EmitSkip without "nskip = 0"
EmitSkip_KeepPending(L, nsamp) ==
    IF L.nskip > 0
    THEN [L EXCEPT !.rawdir = Append(@, RawdirEntry(NoEnt, L.first_samp,
                                                   L.nskip * nsamp)),
                   !.first_samp = @ + L.nskip * nsamp]
    ELSE L

\* the skip pending in the loop becomes a rawdir entry with ent = None
EmitSkip(L, nsamp) ==
    IF L.nskip > 0
    THEN [L EXCEPT !.rawdir = Append(@, RawdirEntry(NoEnt, L.first_samp,
                                                   L.nskip * nsamp)),
                   !.first_samp = @ + L.nskip * nsamp,
                   !.nskip = 0]
    ELSE L

AddDataBuffer(L, ent, nsamp) ==
    [L EXCEPT !.rawdir = Append(@, RawdirEntry(ent, L.first_samp, nsamp)),
              !.first_samp = @ + nsamp]

\* one pass of the loop over a decodable data buffer
ScanBuffer(L, ent, nsamp) ==
    AddDataBuffer(EmitSkip(FoldFirstSkip(L, nsamp), nsamp), ent, nsamp)

\* ScanSkip with the count added to the one pending
ScanSkip_Summed(L, ent) == [L EXCEPT !.nskip = @ + ent.data]

\* line 131: nskip = int(tag.data)
ScanSkip(L, ent) == [L EXCEPT !.nskip = ent.data]

\* the directory entry at index i, with its locator
EntAt(dir, i) ==
    [kind |-> dir[i].kind, type |-> dir[i].type, size |-> dir[i].size,
     data |-> dir[i].data, pos |-> i]

\* ScanEnt without the else branch that raises: a buffer of another type is
\* passed over like a tag of another kind
ScanEnt_NoRaise(L, dir, i) ==
    LET ent == EntAt(dir, i) IN
    IF ent.kind = FIFF_DATA_SKIP THEN ScanSkip(L, ent)
    ELSE IF ent.kind = FIFF_DATA_BUFFER /\ Decodable(ent)
    THEN ScanBuffer(L, ent, NsampOf(ent, NChan))
    ELSE L

\* one pass of "for k in range(first, nent)"
ScanEnt(L, dir, i) ==
    LET ent == EntAt(dir, i) IN
    IF ent.kind = FIFF_DATA_SKIP THEN ScanSkip(L, ent)
    ELSE IF ent.kind = FIFF_DATA_BUFFER
    THEN IF Decodable(ent) THEN ScanBuffer(L, ent, NsampOf(ent, NChan))
         ELSE [L EXCEPT !.err = UnsupportedType]
    ELSE L

\* --------------------------------------------------- the projection cache
\* a projection vector: info['projs'][i]; data stands for p['data']['data'],
\* the flat content of the row vector
Proj(data, active) == [data |-> data, active |-> active]

\* raw._projector: None, or a matrix given by its flat content
NoProjector == [none |-> TRUE, mat |-> <<>>]

RECURSIVE ActiveRows(_)
ActiveRows(projs) ==
    IF Len(projs) = 0 THEN <<>>
    ELSE (IF Head(projs).active THEN Head(projs).data ELSE <<>>)
             \o ActiveRows(Tail(projs))

\* proj.setup_proj: the operator composed from the active vectors, None when
\* there is none; the info is returned as it was given
setup_proj(info) ==
    LET rows == ActiveRows(info.projs) IN
    [projector |-> IF Len(rows) = 0 THEN NoProjector
                   ELSE [none |-> FALSE, mat |-> <<0>> \o rows],
     info |-> info]

\* proj.deactivate_proj: every vector flagged inactive
deactivate_proj(projs) ==
    [i \in 1..Len(projs) |-> [projs[i] EXCEPT !.active = FALSE]]

\* utils.array_hash: a digest of the array's flat content
array_hash(a) == [md5 |-> a]

_hash_projs(projs, projector) ==
    LET out_hash == [i \in 1..Len(projs) |-> array_hash(projs[i].data)] IN
    IF ~projector.none THEN Append(out_hash, array_hash(projector.mat))
    ELSE out_hash

\* Rebuild storing new_hash, taken with the operator it replaces
Rebuild_OldHash(r, sp) ==
    [raw |-> [r EXCEPT !._projector = sp.projector,
                       !.info = sp.info,
                       !._projector_hash =
                           _hash_projs(r.info.projs, r._projector)],
     was_updated |-> TRUE]

\* lines 736-738: the operator and the hash are set anew from setup_proj
Rebuild(r, sp) ==
    [raw |-> [r EXCEPT !._projector = sp.projector,
                       !.info = sp.info,
                       !._projector_hash =
                           _hash_projs(sp.info.projs, sp.projector)],
     was_updated |-> TRUE]

\* returns the handle after the call and the value returned
_update_projector(r) ==
    IF ~(_hash_projs(r.info.projs, r._projector) = r._projector_hash)
    THEN Rebuild(r, setup_proj(r.info))
    ELSE [raw |-> r, was_updated |-> FALSE]

\* ------------------------------------------------------ read_raw_segment
\* Python's None for an optional integer argument and for sel; the arguments
\* enumerated are never negative
NoneInt == 0 - 1
SelNone == <<NoneInt>>

Max(a, b) == IF a >= b THEN a ELSE b
Min(a, b) == IF a <= b THEN a ELSE b

\* a matrix: its rows are the channels picked, each column is one sample
Matrix(dtype, rows, cols) ==
    [none |-> FALSE, dtype |-> dtype, rows |-> rows, cols |-> cols]
NoMatrix == [none |-> TRUE, dtype |-> None, rows |-> <<>>, cols |-> <<>>]

\* a column: sample off of rawdir entry ent, zero (skip run), real or complex
\* (decoded buffer), with the operator multiplied into it after calibration
Column(ent, off, val, projector) ==
    [ent |-> ent, off |-> off, val |-> val, projector |-> projector]
\* a column of np.empty that was never assigned
Garbage == Column(0, 0, "uninit", NoProjector)

Empty(dtype, rows, ncols) == Matrix(dtype, rows, [j \in 1..ncols |-> Garbage])

\* a value assigned into an array of type dtype
Cast(col, dtype) ==
    IF col.val = "complex" /\ dtype # "complex64"
    THEN [col EXCEPT !.val = "realpart"] ELSE col

\* the bound i of a Python slice over n elements
SliceBound(i, n) == IF i < 0 THEN Max(i + n, 0) ELSE Min(i, n)
PySlice(seq, a, b) ==
    LET lo == SliceBound(a, Len(seq))
        hi == IF b = NoneInt THEN Len(seq) ELSE SliceBound(b, Len(seq)) IN
    IF hi <= lo THEN <<>> ELSE SubSeq(seq, lo + 1, hi)

NoData == "ValueError: No data in this range"
BadShape == "ValueError: data_buffer has incorrect shape"
UnboundDtype == "UnboundLocalError: local variable 'dtype' referenced before assignment"
Broadcast == "ValueError: could not broadcast input array"
ReadTagError == "IOError raised by read_tag"
EmptySel == "ValueError: Empty channel list"
ProjChanged == "RuntimeError: Changing projector after preloading data is not allowed"

\* Pick with the last branch taking stop as the last sample wanted
Pick_ShortHead(this, start, stop) ==
    IF stop - 1 > this.last /\ start < this.first
    THEN [first_pick |-> 0, last_pick |-> this.nsamp, case |-> "W"]
    ELSE IF start >= this.first
    THEN IF stop - 1 <= this.last
         THEN [first_pick |-> start - this.first,
               last_pick |-> this.nsamp + stop - this.last - 1, case |-> "M"]
         ELSE [first_pick |-> start - this.first,
               last_pick |-> this.nsamp, case |-> "E"]
    ELSE [first_pick |-> 0, last_pick |-> stop - 1 - this.first, case |-> "B"]

\* "The picking logic is a bit complicated"
Pick(this, start, stop) ==
    IF stop - 1 > this.last /\ start < this.first
    THEN [first_pick |-> 0, last_pick |-> this.nsamp, case |-> "W"]
    ELSE IF start >= this.first
    THEN IF stop - 1 <= this.last
         THEN [first_pick |-> start - this.first,
               last_pick |-> this.nsamp + stop - this.last - 1, case |-> "M"]
         ELSE [first_pick |-> start - this.first,
               last_pick |-> this.nsamp, case |-> "E"]
    ELSE [first_pick |-> 0, last_pick |-> stop - this.first, case |-> "B"]

\* data[:, dest:(dest + picksamp)] = src
AssignCols(data, dest, picksamp, src) ==
    LET n == Len(data.cols)
        lo == SliceBound(dest, n)
        hi == Max(SliceBound(dest + picksamp, n), lo)
        ok == Len(src) = hi - lo \/ Len(src) = 1 IN
    [ok |-> ok,
     lo |-> lo, hi |-> hi,
     data |-> IF ~ok THEN data
              ELSE [data EXCEPT !.cols =
                      [j \in 1..n |->
                         IF j > lo /\ j <= hi
                         THEN Cast(IF Len(src) = 1 THEN src[1] ELSE src[j - lo],
                                   data.dtype)
                         ELSE @[j]]]]

\* tag.data reshaped, transposed and multiplied, or the zeros of a skip run
Decode(c, i) ==
    LET this == c.rawdir[i] IN
    [j \in 1..this.nsamp |->
       IF this.ent.kind = None THEN Column(i, j - 1, "zero", NoProjector)
       ELSE Column(i, j - 1,
                   IF this.ent.type = FIFFT_COMPLEX_FLOAT THEN "complex"
                   ELSE "real",
                   c.mult)]

\* the local dtype after the entry was decoded: a skip run leaves it as it was
DtypeAfter(this, dtype) ==
    IF this.ent.kind = None THEN dtype
    ELSE IF this.ent.type = FIFFT_COMPLEX_FLOAT THEN "complex64" ELSE "float"

\* lines 887-888
StoreCols(a1, as, picksamp) ==
    IF ~as.ok THEN [a1 EXCEPT !.err = Broadcast]
    ELSE [a1 EXCEPT !.data = as.data,
                    !.dest = @ + picksamp,
                    !.writes = [j \in 1..Len(@) |->
                                  IF j > as.lo /\ j <= as.hi
                                  THEN @[j] + 1 ELSE @[j]]]

\* "Now we are ready to pick"
PickInto(c, a1, one, p) ==
    IF p.last_pick - p.first_pick <= 0 THEN a1
    ELSE IF a1.data.none /\ a1.dtype = "unbound"
    THEN [a1 EXCEPT !.err = UnboundDtype]
    ELSE StoreCols(a1,
                   AssignCols(IF a1.data.none
                              THEN Empty(a1.dtype, c.idx, c.stop - c.start)
                              ELSE a1.data,
                              a1.dest, p.last_pick - p.first_pick,
                              PySlice(one, p.first_pick, p.last_pick)),
                   p.last_pick - p.first_pick)

\* the body of "for this in raw.rawdir" when this['last'] >= start; read_tag
\* raises on a tag of the file that cannot be read
ReadOne(c, i, acc, p) ==
    IF c.rawdir[i].ent.kind # None /\ c.rawdir[i].ent.pos \in c.unreadable
    THEN [acc EXCEPT !.err = ReadTagError]
    ELSE
    PickInto(c,
             [acc EXCEPT !.dtype = DtypeAfter(c.rawdir[i], @),
                         !.decoded = IF c.rawdir[i].ent.kind = None THEN @
                                     ELSE Append(@, i),
                         !.cases = Append(@, p.case)],
             Decode(c, i), p)

RECURSIVE ReadLoop(_, _, _)
\* ReadNext without the break
ReadNext_NoBreak(c, i, a1) ==
    IF a1.err # None THEN a1
    ELSE ReadLoop(c, i + 1, a1)

\* "Done?"
ReadNext(c, i, a1) ==
    IF a1.err # None THEN a1
    ELSE IF c.rawdir[i].last >= c.stop - 1 THEN a1
    ELSE ReadLoop(c, i + 1, a1)

ReadLoop(c, i, acc) ==
    IF i > Len(c.rawdir) THEN acc
    ELSE ReadNext(c, i,
                  IF c.rawdir[i].last >= c.start
                  THEN ReadOne(c, i, acc, Pick(c.rawdir[i], c.start, c.stop))
                  ELSE acc)

\* what a call leaves behind: the handle after it, the error raised (None when
\* it returned), the pair returned, and for a read the array being filled as
\* it was left, the fill cursor, the number of assignments made to each
\* column, the entries fetched with read_tag, the picking branch taken for
\* each entry looked at and the number of calls of setup_proj made
Return(r, err, data, times, acc) ==
    [raw |-> r, err |-> err, data |-> data, times |-> times,
     buffer |-> acc.data, dest |-> acc.dest, writes |-> acc.writes,
     decoded |-> acc.decoded, cases |-> acc.cases, setups |-> acc.setups]
NoAcc ==
    [data |-> NoMatrix, dest |-> 0, writes |-> <<>>, decoded |-> <<>>,
     cases |-> <<>>, setups |-> 0]
Raise(r, err) == Return(r, err, NoMatrix, <<>>, NoAcc)

\* lines 896-900
ReadResult(r, start, stop, acc) ==
    IF acc.err # None THEN Return(r, acc.err, NoMatrix, <<>>, acc)
    ELSE Return(r, None, acc.data,
                [j \in 1..(stop - start) |-> (start + j - 1) - r.first_samp],
                acc)

\* lines 816-894
ReadProjected(up, start, stop, idx, data_buffer) ==
    ReadResult(up.raw, start, stop,
               ReadLoop([rawdir |-> up.raw.rawdir, start |-> start,
                         stop |-> stop, idx |-> idx,
                         unreadable |-> up.raw.unreadable,
                         mult |-> IF up.raw.proj THEN up.raw._projector
                                  ELSE NoProjector],
                        1,
                        [data |-> data_buffer, dest |-> 0, dtype |-> "unbound",
                         err |-> None, decoded |-> <<>>, cases |-> <<>>,
                         writes |-> [j \in 1..(stop - start) |-> 0],
                         setups |-> IF up.was_updated THEN 1 ELSE 0]))

\* ReadWindow with mult taken before _update_projector is called
ReadWindow_LateUpdate(r, start, stop, idx, data_buffer) ==
    IF start >= stop THEN Raise(r, NoData)
    ELSE IF ~data_buffer.none
            /\ (Len(data_buffer.rows) # Len(idx)
                \/ Len(data_buffer.cols) # stop - start)
    THEN Raise(r, BadShape)
    ELSE [ReadProjected([raw |-> r, was_updated |-> FALSE], start, stop, idx,
                        data_buffer)
          EXCEPT !.raw = _update_projector(r).raw]

\* lines 794-814
ReadWindow(r, start, stop, idx, data_buffer) ==
    IF start >= stop THEN Raise(r, NoData)
    ELSE IF ~data_buffer.none
            /\ (Len(data_buffer.rows) # Len(idx)
                \/ Len(data_buffer.cols) # stop - start)
    THEN Raise(r, BadShape)
    ELSE ReadProjected(_update_projector(r), start, stop, idx, data_buffer)

\* lines 788-792: the window in absolute samples
ClampStop(r, stop) == IF stop >= r.last_samp THEN r.last_samp + 1 ELSE stop

read_raw_segment(r, start, stop, sel, data_buffer) ==
    ReadWindow(r, start + r.first_samp,
               ClampStop(r, (IF stop = NoneInt THEN r.last_samp + 1 ELSE stop)
                               + r.first_samp),
               IF sel = SelNone THEN [j \in 1..r.info.nchan |-> j - 1] ELSE sel,
               data_buffer)

\* ------------------------------------------------ Raw: indexing and reload
\* item is (sel, slice(start, stop)); a channel slice has become a list
_parse_get_set_params(sel, start, stop) ==
    [err |-> IF Len(sel) = 0 THEN EmptySel ELSE None,
     sel |-> sel, start |-> IF start = NoneInt THEN 0 ELSE start, stop |-> stop]

\* self._data[sel, start:stop]
IndexData(data, sel, start, stop) ==
    Matrix(data.dtype, [i \in 1..Len(sel) |-> data.rows[sel[i] + 1]],
           PySlice(data.cols, start, stop))

\* lines 235-240
GetPreloaded(up, data, times) ==
    IF up.was_updated
    THEN Return(up.raw, ProjChanged, NoMatrix, <<>>, [NoAcc EXCEPT !.setups = 1])
    ELSE Return(up.raw, None, data, times, NoAcc)

GetParsed(r, p) ==
    IF p.err # None THEN Raise(r, p.err)
    ELSE IF r._preloaded
    THEN GetPreloaded(_update_projector(r),
                      IndexData(r._data, p.sel, p.start, p.stop),
                      PySlice(r._times, p.start, p.stop))
    ELSE read_raw_segment(r, p.start, p.stop, p.sel, NoMatrix)

Raw__getitem__(r, sel, start, stop) ==
    GetParsed(r, _parse_get_set_params(sel, start, stop))

\* what was written into columns start..stop-1 of one row of self._data since
\* the row was last read from the file whole
\* src is the channel whose row the values written were computed from, when
\* they were computed from a row
Edit(fun, start, stop) ==
    [fun |-> fun, start |-> start, stop |-> stop, src |-> NoneInt]

\* the row with e written over it: writing the same values twice is
\* writing them once
Overwritten(row, e) ==
    IF Len(row) > 0 /\ row[Len(row)] = e THEN row ELSE Append(row, e)

\* lines 475-477: a read that raised leaves the array as it was filled so far
Reloaded(rd) ==
    IF rd.err # None
    THEN [rd EXCEPT !.raw = [rd.raw EXCEPT
                               !._data = IF rd.buffer.none THEN @ ELSE rd.buffer,
                               !._edits = IF rd.buffer.none \/ rd.dest = 0 THEN @
                                          ELSE [j \in 1..Len(@) |->
                                                  Overwritten(@[j],
                                                              Edit("reload", 0, rd.dest))]]]
    ELSE [rd EXCEPT !.raw = [rd.raw EXCEPT !._data = rd.data,
                                           !._times = rd.times,
                                           !._preloaded = TRUE,
                                           !._edits = [j \in 1..Len(@) |-> <<>>]]]

ReloadInto(r) == Reloaded(read_raw_segment(r, 0, NoneInt, SelNone, r._data))

\* reload(init): the handle after the call and the error raised, if any
Raw_reload(r, init) ==
    ReloadInto(IF init \/ ~r._preloaded
               THEN [r EXCEPT !._data =
                       Empty("float32", [j \in 1..r.info.nchan |-> j - 1],
                             r.last_samp - r.first_samp + 1)]
               ELSE r)

\* lines 169-196 of Raw.__init__: the attributes set once the scan is over
NewRaw(L, info, proj) ==
    LET sp == setup_proj(info) IN
    [first_samp |-> L.self_first_samp,
     last_samp |-> L.first_samp - 1,
     cals |-> [j \in 1..info.nchan |-> info.chs[j].range * info.chs[j].cal],
     rawdir |-> L.rawdir,
     comp |-> None,
     info |-> sp.info,
     proj |-> proj,
     _projector |-> sp.projector,
     _projector_hash |-> _hash_projs(sp.info.projs, sp.projector),
     _preloaded |-> FALSE,
     _data |-> NoMatrix,
     _times |-> <<>>,
     _edits |-> [j \in 1..info.nchan |-> <<>>],
     unreadable |-> {}]

\* read_meas_info: the measurement info of the file
Info(projs) ==
    [nchan |-> NChan,
     chs |-> [j \in 1..NChan |-> [range |-> 2, cal |-> 3]],
     projs |-> projs,
     sfreq |-> 1,
     filename |-> "raw.fif"]

\* ----------------------------------------------------- add_proj and save
\* add_proj(projs, remove_existing): the list is replaced or extended, then
\* _update_projector is called and its value dropped
Updated(up) ==
    Return(up.raw, None, NoMatrix, <<>>,
           [NoAcc EXCEPT !.setups = IF up.was_updated THEN 1 ELSE 0])

Raw_add_proj(r, projs, remove_existing) ==
    Updated(_update_projector(
        [r EXCEPT !.info.projs = IF remove_existing THEN projs ELSE @ \o projs]))

\* start_writing_raw(name, info, sel): the info written to the file, the info
\* object passed in as the call leaves it, and the cals returned.  Without
\* sel the info is not copied: range is set to 1 in the caller's info
WrittenChs(chs) == [j \in 1..Len(chs) |-> [chs[j] EXCEPT !.range = 1]]

start_writing_raw(name, info, sel) ==
    IF sel = SelNone
    THEN [info |-> [info EXCEPT !.chs = WrittenChs(@)],
          file_info |-> [info EXCEPT !.chs = WrittenChs(@)],
          cals |-> [j \in 1..info.nchan |-> info.chs[j].cal]]
    ELSE [info |-> info,
          file_info |-> [info EXCEPT
                           !.chs = WrittenChs([j \in 1..Len(sel) |->
                                                 info.chs[sel[j] + 1]]),
                           !.nchan = Len(sel)],
          cals |-> [j \in 1..Len(sel) |-> info.chs[sel[j] + 1].cal]]

NoFile ==
    [fname |-> None, info |-> Info(<<>>), first_samp |-> 0, buffers |-> <<>>,
     finished |-> FALSE]

SameFile == "ValueError: You cannot save data to the same file"
CalsMismatch == "ValueError: buffer and calibration sizes do not match"

\* what save leaves behind: as Return, with the file written
SaveReturn(st) ==
    [raw |-> st.raw, err |-> st.err, data |-> NoMatrix, times |-> <<>>,
     buffer |-> NoMatrix, dest |-> 0, writes |-> <<>>, decoded |-> <<>>,
     cases |-> <<>>, setups |-> st.setups, file |-> st.file]

RECURSIVE SaveLoop(_, _, _)
\* lines 699-706 for the chunk read as g: dropped, or written with the cals
\* divided out
SaveChunk(a, first, st, g) ==
    IF g.err # None
    THEN [st EXCEPT !.raw = g.raw, !.err = g.err, !.setups = @ + g.setups]
    ELSE IF a.drop_small_buffer /\ first > a.start
            /\ Len(g.times) < a.buffer_size
    THEN [st EXCEPT !.raw = g.raw, !.setups = @ + g.setups]
    ELSE IF Len(g.data.rows) # Len(a.cals)
    THEN [st EXCEPT !.raw = g.raw, !.err = CalsMismatch,
                    !.setups = @ + g.setups]
    ELSE SaveLoop(a, first + a.buffer_size,
                  [st EXCEPT !.raw = g.raw, !.setups = @ + g.setups,
                             !.file.buffers =
                                 Append(@, [data |-> g.data, cals |-> a.cals])])

\* "for first in range(start, stop, buffer_size)"
SaveLoop(a, first, st) ==
    IF first >= a.stop THEN st
    ELSE SaveChunk(a, first, st,
                   Raw__getitem__(st.raw,
                                  IF a.picks = SelNone
                                  THEN [j \in 1..st.raw.info.nchan |-> j - 1]
                                  ELSE a.picks,
                                  first,
                                  IF first + a.buffer_size >= a.stop
                                  THEN a.stop + 1
                                  ELSE first + a.buffer_size))

\* finish_writing_raw, reached when no read raised
SaveFinish(st) ==
    IF st.err # None THEN st ELSE [st EXCEPT !.file.finished = TRUE]

\* SaveStarted with self.cals computed anew from the info start_writing_raw
\* has left
SaveStarted_Recal(r, fname, picks, start, stop, buffer_size, drop_small_buffer, sw) ==
    SaveFinish(
        SaveLoop([picks |-> picks, start |-> start, stop |-> stop,
                  buffer_size |-> buffer_size,
                  drop_small_buffer |-> drop_small_buffer, cals |-> sw.cals],
                 start,
                 [raw |-> [r EXCEPT !.info = sw.info,
                                    !.cals = [j \in 1..Len(@) |->
                                                sw.info.chs[j].range
                                                    * sw.info.chs[j].cal]],
                  err |-> None,
                  setups |-> 0,
                  file |-> [fname |-> fname, info |-> sw.file_info,
                            first_samp |-> r.first_samp + start,
                            buffers |-> <<>>, finished |-> FALSE]]))

\* lines 670-708, r being the handle with the projs already deactivated
SaveStarted(r, fname, picks, start, stop, buffer_size, drop_small_buffer, sw) ==
    SaveFinish(
        SaveLoop([picks |-> picks, start |-> start, stop |-> stop,
                  buffer_size |-> buffer_size,
                  drop_small_buffer |-> drop_small_buffer, cals |-> sw.cals],
                 start,
                 [raw |-> [r EXCEPT !.info = sw.info], err |-> None,
                  setups |-> 0,
                  file |-> [fname |-> fname, info |-> sw.file_info,
                            first_samp |-> r.first_samp + start,
                            buffers |-> <<>>, finished |-> FALSE]]))

SaveDeactivated(r, fname, picks, start, stop, buffer_size, drop_small_buffer) ==
    SaveStarted(r, fname, picks, start, stop, buffer_size, drop_small_buffer,
                start_writing_raw(fname, r.info, picks))

\* save with the test of lines 654-656 made after the file was started
Raw_save_LateCheck(r, fname, picks, start, stop, buffer_size, drop_small_buffer, proj_active) ==
    SaveReturn(
        [SaveDeactivated(
             IF (IF proj_active = None THEN r.proj ELSE proj_active = "True")
             THEN r
             ELSE [r EXCEPT !.info.projs = deactivate_proj(@)],
             fname, picks, start,
             IF stop = NoneInt THEN r.last_samp + 1 - r.first_samp ELSE stop,
             buffer_size, drop_small_buffer)
         EXCEPT !.err = IF fname = r.info.filename THEN SameFile ELSE @])

\* save(fname, picks, tmin, tmax, buffer_size_sec, drop_small_buffer,
\* proj_active) with sfreq = 1: start, stop and buffer_size are tmin, tmax
\* and buffer_size_sec; stop = NoneInt is tmax=None; proj_active is "True",
\* "False" or None
Raw_save(r, fname, picks, start, stop, buffer_size, drop_small_buffer, proj_active) ==
    IF fname = r.info.filename
    THEN SaveReturn([raw |-> r, err |-> SameFile, setups |-> 0, file |-> NoFile])
    ELSE SaveReturn(
             SaveDeactivated(
                 IF (IF proj_active = None THEN r.proj ELSE proj_active = "True")
                 THEN r
                 ELSE [r EXCEPT !.info.projs = deactivate_proj(@)],
                 fname, picks, start,
                 IF stop = NoneInt THEN r.last_samp + 1 - r.first_samp ELSE stop,
                 buffer_size, drop_small_buffer))

\* ------------------------------------- in-place operations on self._data
NotPreloadedSet ==
    "RuntimeError: Modifying data of Raw is only supported when preloading is used"
NotPreloaded == "RuntimeError: Raw data needs to be preloaded"
FunFailed == "Exception raised by fun"
DotNone == "TypeError: unsupported operand type(s) for *: 'NoneType' and 'float'"

\* the rows of edits with e appended to the rows listed in sel
EditRows(edits, sel, e) ==
    [j \in 1..Len(edits) |->
       IF \E i \in 1..Len(sel) : sel[i] + 1 = j THEN Append(edits[j], e)
       ELSE edits[j]]

\* line 254: self._data[sel, start:stop] = value
SetParsed(r, p) ==
    IF p.err # None THEN Raise(r, p.err)
    ELSE Raise([r EXCEPT !._edits =
                  EditRows(@, p.sel,
                           Edit("set",
                                SliceBound(p.start, Len(r._data.cols)),
                                IF p.stop = NoneInt THEN Len(r._data.cols)
                                ELSE SliceBound(p.stop, Len(r._data.cols))))],
               None)

Raw__setitem__(r, sel, start, stop) ==
    IF ~r._preloaded THEN Raise(r, NotPreloadedSet)
    ELSE SetParsed(r, _parse_get_set_params(sel, start, stop))

\* a function applied to one channel: its name and the channels it raises on
Fun(name, fails) == [name |-> name, fails |-> fails]

\* line 310-311: self._data = self._data.astype(dtype)
AsType(r, dtype) ==
    IF dtype # None /\ dtype # r._data.dtype
    THEN [r EXCEPT !._data.dtype = dtype]
    ELSE r

\* data_in[idx, :]: the row of channel idx, n columns long
RowOf(edits, idx, n) == [row |-> edits[idx + 1], idx |-> idx, n |-> n]

\* fun(x): the row x with fun applied to the whole of it
Result(fun, x) ==
    Append(x.row, [fun |-> fun.name, start |-> 0, stop |-> x.n, src |-> x.idx])

RECURSIVE ApplySequential(_, _, _, _, _)
\* lines 315-316: row idx is replaced by fun of row idx of data_in, which is
\* self._data itself unless astype has made a new array
ApplySequential(r, fun, picks, i, edits_in) ==
    IF i > Len(picks) THEN Raise(r, None)
    ELSE IF picks[i] \in fun.fails THEN Raise(r, FunFailed)
    ELSE ApplySequential(
             [r EXCEPT !._edits[picks[i] + 1] =
                  Result(fun,
                         RowOf(IF Len(edits_in) = 0 THEN r._edits ELSE edits_in,
                               picks[i], Len(r._data.cols)))],
             fun, picks, i + 1, edits_in)

\* the orders in which n workers can complete
Orders(n) ==
    {o \in [1..n -> 1..n] : \A a, b \in 1..n : o[a] = o[b] => a = b}

\* parallel(p_fun(x) for x in xs), the workers completing in the given order:
\* the list of the results, in the order of xs
parallel(fun, xs, order) == [i \in 1..Len(xs) |-> Result(fun, xs[i])]

\* line 321: data_picks = data_in[picks, :]
DataPicks(r, picks) ==
    [i \in 1..Len(picks) |-> RowOf(r._edits, picks[i], Len(r._data.cols))]

\* StoreRows with the rows of new stored in the order of the channels
StoreRows_Sorted(r, picks, new) ==
    [r EXCEPT !._edits =
       [j \in 1..Len(@) |->
          IF \E i \in 1..Len(picks) : picks[i] + 1 = j
          THEN new[Cardinality({i \in 1..Len(picks) : picks[i] + 1 <= j})]
          ELSE @[j]]]

\* line 325: self._data[picks, :] = new; of a channel listed twice the last
\* row is kept
StoreRows(r, picks, new) ==
    [r EXCEPT !._edits =
       [j \in 1..Len(@) |->
          IF \E i \in 1..Len(picks) : picks[i] + 1 = j
          THEN new[CHOOSE i \in 1..Len(picks) :
                      /\ picks[i] + 1 = j
                      /\ \A h \in (i + 1)..Len(picks) : picks[h] + 1 # j]
          ELSE @[j]]]

\* lines 319-325: every row picked is computed from data_in before any is
\* stored; an exception in one of them leaves line 325 unreached
ApplyParallel(r, fun, picks) ==
    IF \E i \in 1..Len(picks) : picks[i] \in fun.fails THEN Raise(r, FunFailed)
    ELSE Raise(StoreRows(r, picks,
                         CHOOSE new \in {parallel(fun, DataPicks(r, picks), o) :
                                            o \in Orders(Len(picks))} : TRUE),
               None)

\* lines 309-325, r being the handle with self._data as astype left it and
\* edits_in the rows of data_in when it is another array (else empty)
Applied(r, fun, picks, n_jobs, edits_in) ==
    IF n_jobs = 1 THEN ApplySequential(r, fun, picks, 1, edits_in)
    ELSE ApplyParallel(r, fun, picks)

Raw_apply_function(r, fun, picks, dtype, n_jobs) ==
    IF ~r._preloaded THEN Raise(r, NotPreloaded)
    ELSE Applied(AsType(r, dtype), fun, picks, n_jobs,
                 IF dtype # None /\ dtype # r._data.dtype THEN r._edits
                 ELSE <<>>)

Raw_apply_hilbert(r, picks, envelope, n_jobs) ==
    IF envelope
    THEN Raw_apply_function(r, Fun("_envelope", {}), picks, None, n_jobs)
    ELSE Raw_apply_function(r, Fun("hilbert", {}), picks, "complex64", n_jobs)

\* pick_types(info, meg=True, eeg=True): every channel is a data channel
AllChannels(r) == [j \in 1..r.info.nchan |-> j - 1]

\* lines 432-445 with l_freq and h_freq as lines 426-429 left them
Filtered(r, l_freq, h_freq, picks, n_jobs) ==
    IF l_freq = NoneInt /\ h_freq # NoneInt
    THEN Raw_apply_function(r, Fun("low_pass_filter", {}), picks, None, n_jobs)
    ELSE IF l_freq # NoneInt /\ h_freq = NoneInt
    THEN Raw_apply_function(r, Fun("high_pass_filter", {}), picks, None, n_jobs)
    ELSE IF l_freq # NoneInt /\ h_freq # NoneInt
    THEN Raw_apply_function(r, Fun("band_pass_filter", {}), picks, None, n_jobs)
    ELSE Raise(r, None)

\* filter(l_freq, h_freq, picks, n_jobs); NoneInt is None, and None > fs / 2
\* is False
Raw_filter(r, l_freq, h_freq, picks, n_jobs) ==
    Filtered(r,
             IF l_freq = 0 THEN NoneInt ELSE l_freq,
             IF h_freq # NoneInt /\ 2 * h_freq > r.info.sfreq THEN NoneInt
             ELSE h_freq,
             IF picks = SelNone THEN AllChannels(r) ELSE picks,
             n_jobs)

\* the operator p multiplied into a column
Projected(col, p) ==
    [col EXCEPT !.projector =
        IF @.none THEN p ELSE [none |-> FALSE, mat |-> p.mat \o @.mat]]

\* lines 487-488, up being what _update_projector returned
ProjectorApplied(up) ==
    IF ~up.raw._preloaded THEN Updated(up)
    ELSE IF up.raw._projector.none
    THEN [Updated(up) EXCEPT !.err = DotNone]
    ELSE Updated([up EXCEPT !.raw._data.cols =
                     [j \in 1..Len(@) |-> Projected(@[j], up.raw._projector)]])

Raw_apply_projector(r) ==
    ProjectorApplied(_update_projector([r EXCEPT !.proj = TRUE]))

\* the whole scan of a directory, as the steps above applied in order
RECURSIVE ScanLoop(_, _, _)
ScanLoop(L, dir, i) ==
    IF i > Len(dir) \/ L.err # None THEN L
    ELSE ScanLoop(ScanEnt(L, dir, i), dir, i + 1)

ScanDirectory(dir) ==
    LET L1 == GetFirstSampleTag(InitLocals, dir) IN
    IF L1.err # None THEN L1
    ELSE LET L2 == OmitInitialSkip(L1, dir) IN
         IF L2.err # None THEN L2 ELSE ScanLoop(L2, dir, L2.first)

\* the object before __init__ has set anything but what it read from the file
NoRaw(info) ==
    [first_samp |-> 0, last_samp |-> 0, cals |-> <<>>, rawdir |-> <<>>,
     comp |-> None, info |-> info, proj |-> FALSE, _projector |-> NoProjector,
     _projector_hash |-> <<>>, _preloaded |-> FALSE, _data |-> NoMatrix,
     _times |-> <<>>, _edits |-> <<>>, unreadable |-> {}]

Call(op, sel, start, stop) ==
    [op |-> op, sel |-> sel, start |-> start, stop |-> stop]

\* ------------------------------------------ Spec: the steps of Raw.__init__
\* the data buffers of the scanned directories: every type the scan tells
\* apart, and buffers of 0, 1, 2 and 4 samples
ScanTags ==
    FirstSampleTags \cup SkipTags \cup OtherTags
        \cup BufferTags({FIFFT_DAU_PACK16, FIFFT_FLOAT})
        \cup {Ent(FIFF_DATA_BUFFER, t, 4 * NChan, 0) :
                 t \in {FIFFT_SHORT, FIFFT_INT, FIFFT_COMPLEX_FLOAT, FIFFT_DOUBLE}}

FileProjs == <<Proj(<<1>>, TRUE)>>

Init ==
    /\ directory \in Streams(ScanTags, MaxTags)
    /\ pc = "first_sample"
    /\ k = 0
    /\ loc = InitLocals
    /\ raw = NoRaw(Info(FileProjs))
    /\ fid = "open"
    /\ call = Call("Raw", SelNone, 0, NoneInt)
    /\ ret = Raise(raw, None)
    /\ item = Call("item", SelNone, 0, NoneInt)
    /\ outfile = NoFile

\* lines 109-113; an empty directory has no directory[0]
FirstSample ==
    /\ pc = "first_sample"
    /\ loc' = GetFirstSampleTag(loc, directory)
    /\ IF loc'.err # None
       THEN pc' = "error" /\ ret' = Raise(raw, loc'.err)
       ELSE pc' = "initial_skip" /\ UNCHANGED ret
    /\ UNCHANGED <<directory, k, raw, fid, call, item, outfile>>

\* lines 115-122
InitialSkip ==
    /\ pc = "initial_skip"
    /\ loc' = OmitInitialSkip(loc, directory)
    /\ IF loc'.err # None
       THEN pc' = "error" /\ ret' = Raise(raw, loc'.err) /\ UNCHANGED <<k, raw>>
       ELSE /\ pc' = "loop"
            /\ k' = loc'.first
            /\ raw' = [raw EXCEPT !.first_samp = loc'.self_first_samp]
            /\ UNCHANGED ret
    /\ UNCHANGED <<directory, fid, call, item, outfile>>

\* one pass of the loop of lines 127-167
LoopPass ==
    /\ loc' = ScanEnt(loc, directory, k)
    /\ IF loc'.err # None
       THEN /\ pc' = "error"
            /\ fid' = "closed"
            /\ ret' = Raise(raw, loc'.err)
            /\ UNCHANGED <<k, raw>>
       ELSE /\ k' = k + 1
            /\ raw' = [raw EXCEPT !.first_samp = loc'.self_first_samp]
            /\ UNCHANGED <<pc, fid, ret>>
    /\ UNCHANGED <<directory, call, item, outfile>>

InLoop == pc = "loop" /\ k <= Len(directory)

LoopSkip ==
    /\ InLoop
    /\ directory[k].kind = FIFF_DATA_SKIP
    /\ LoopPass

LoopBuffer ==
    /\ InLoop
    /\ directory[k].kind = FIFF_DATA_BUFFER
    /\ Decodable(directory[k])
    /\ LoopPass

LoopUnsupported ==
    /\ InLoop
    /\ directory[k].kind = FIFF_DATA_BUFFER
    /\ ~Decodable(directory[k])
    /\ LoopPass

LoopOther ==
    /\ InLoop
    /\ directory[k].kind \notin {FIFF_DATA_SKIP, FIFF_DATA_BUFFER}
    /\ LoopPass

\* the constructor returns the object, or raises what reload raised
Constructed(r) ==
    /\ raw' = r.raw
    /\ ret' = [r EXCEPT !.setups = @ + 1]
    /\ pc' = IF r.err # None THEN "error" ELSE "done"
    /\ UNCHANGED outfile

\* lines 169-196: the attributes are set; preload reloads the data at once
Finish ==
    /\ pc = "loop"
    /\ k > Len(directory)
    /\ \E proj \in BOOLEAN, preload \in BOOLEAN :
          IF preload
          THEN Constructed(Raw_reload(NewRaw(loc, raw.info, proj), TRUE))
          ELSE Constructed(Raise(NewRaw(loc, raw.info, proj), None))
    /\ UNCHANGED <<directory, k, loc, fid, call, item>>

Next ==
    \/ FirstSample
    \/ InitialSkip
    \/ LoopSkip
    \/ LoopBuffer
    \/ LoopUnsupported
    \/ LoopOther
    \/ Finish

Spec == Init /\ [][Next]_vars

\* --------------------------------- SpecRead: reads on the handles opened
\* directories of float buffers of 1 and 2 samples, complex buffers of 1
\* sample and skips, with and without a first-sample tag
ReadTags ==
    {Ent(FIFF_DATA_SKIP, FIFFT_INT, 4, MaxSkip)}
        \cup BufferTags({FIFFT_FLOAT})
        \cup {Ent(FIFF_DATA_BUFFER, FIFFT_COMPLEX_FLOAT, 8 * NChan, 0)}

ReadDirectories ==
    {d \in Streams(ReadTags, MaxReadTags)
          \cup {<<Ent(FIFF_FIRST_SAMPLE, FIFFT_INT, 4, MaxFirstSamp)>> \o b :
                   b \in Streams(ReadTags, MaxReadTags - 1)} :
        ScanDirectory(d).err = None}

\* the handle Raw(fname, proj=proj) returns for a directory
Opened(dir, projs, proj) == NewRaw(ScanDirectory(dir), Info(projs), proj)

NSamp(r) == r.last_samp - r.first_samp + 1

\* the channel selections enumerated: None, an empty list, one channel
Sels == {SelNone, <<>>, <<NChan - 1>>}

\* the requests: a selection and a window start:stop, stop None included
Items(r) ==
    {Call("item", sel, start, stop) :
        sel \in Sels, start \in 0..NSamp(r),
        stop \in (0..(NSamp(r) + 1)) \cup {NoneInt}}

InitRead ==
    /\ directory \in ReadDirectories
    /\ pc = "done"
    /\ k = Len(directory) + 1
    /\ loc = ScanDirectory(directory)
    /\ raw = Opened(directory, FileProjs, TRUE)
    /\ fid = "open"
    /\ call = Call("Raw", SelNone, 0, NoneInt)
    /\ ret = Raise(raw, None)
    /\ item \in Items(raw)
    /\ outfile = NoFile

\* the call returned or raised r
Called(op, r) ==
    /\ call' = [item EXCEPT !.op = op]
    /\ ret' = r
    /\ raw' = r.raw
    /\ UNCHANGED outfile
    /\ UNCHANGED <<directory, pc, k, loc, fid, item>>

\* read_raw_segment(raw, start, stop, sel)
ReadSegment ==
    /\ pc = "done"
    /\ Called("read_raw_segment",
              read_raw_segment(raw, item.start, item.stop, item.sel, NoMatrix))

\* raw[sel, start:stop]
GetItem ==
    /\ pc = "done"
    /\ item.sel # SelNone
    /\ Called("getitem", Raw__getitem__(raw, item.sel, item.start, item.stop))

\* raw.reload()
Reload ==
    /\ pc = "done"
    /\ call' = Call("reload", SelNone, 0, NoneInt)
    /\ ret' = Raw_reload(raw, FALSE)
    /\ raw' = ret'.raw
    /\ UNCHANGED outfile
    /\ UNCHANGED <<directory, pc, k, loc, fid, item>>

NextRead ==
    \/ ReadSegment
    \/ GetItem
    \/ Reload

SpecRead == InitRead /\ [][NextRead]_vars

\* ------------------------- SpecProj: the projection cache of one handle
\* the recording: a first-sample tag and one float buffer of 2 samples
ProjDirectory ==
    <<Ent(FIFF_FIRST_SAMPLE, FIFFT_INT, 4, MaxFirstSamp),
      Ent(FIFF_DATA_BUFFER, FIFFT_FLOAT, 8 * NChan, 0)>>

\* the vector a list of n vectors is extended by, active or not
ProjVectors(n) == {Proj(<<n + 1>>, a) : a \in BOOLEAN}

RECURSIVE ProjListsOf(_)
ProjListsOf(n) ==
    IF n = 0 THEN {<<>>}
    ELSE {Append(l, v) : l \in ProjListsOf(n - 1), v \in ProjVectors(n - 1)}

ProjLists == UNION {ProjListsOf(n) : n \in 0..MaxProjs}

InitProj ==
    /\ directory = ProjDirectory
    /\ pc = "done"
    /\ k = Len(directory) + 1
    /\ loc = ScanDirectory(directory)
    /\ \E projs \in ProjLists, proj \in BOOLEAN :
          raw = Opened(directory, projs, proj)
    /\ fid = "open"
    /\ call = Call("Raw", SelNone, 0, NoneInt)
    /\ ret = Raise(raw, None)
    /\ item = Call("item", <<0>>, 0, NoneInt)
    /\ outfile = NoFile

\* a direct call of _update_projector(raw)
UpdateProjector ==
    /\ pc = "done"
    /\ call' = [op |-> "_update_projector"]
    /\ ret' = Updated(_update_projector(raw))
    /\ raw' = ret'.raw
    /\ UNCHANGED <<directory, pc, k, loc, fid, item, outfile>>

\* raw.add_proj([v], remove_existing)
AddProj ==
    /\ pc = "done"
    /\ \E remove_existing \in BOOLEAN :
       \E v \in ProjVectors(IF remove_existing THEN 0 ELSE Len(raw.info.projs)) :
          /\ remove_existing \/ Len(raw.info.projs) < MaxProjs
          /\ call' = [op |-> "add_proj", projs |-> <<v>>,
                      remove_existing |-> remove_existing]
          /\ ret' = Raw_add_proj(raw, <<v>>, remove_existing)
    /\ raw' = ret'.raw
    /\ UNCHANGED <<directory, pc, k, loc, fid, item, outfile>>

\* the caller edits raw.info['projs'] itself: appends a vector, deletes the
\* last one, or flips the active flag of one
Edited(projs) ==
    /\ call' = [op |-> "edit"]
    /\ raw' = [raw EXCEPT !.info.projs = projs]
    /\ ret' = Raise(raw', None)
    /\ UNCHANGED <<directory, pc, k, loc, fid, item, outfile>>

EditProjs ==
    /\ pc = "done"
    /\ \/ \E v \in ProjVectors(Len(raw.info.projs)) :
             /\ Len(raw.info.projs) < MaxProjs
             /\ Edited(Append(raw.info.projs, v))
       \/ /\ Len(raw.info.projs) > 0
          /\ Edited(SubSeq(raw.info.projs, 1, Len(raw.info.projs) - 1))
       \/ \E i \in 1..Len(raw.info.projs) :
             Edited([raw.info.projs EXCEPT ![i].active = ~@])

\* raw.save(fname, proj_active=proj_active) with one buffer for the recording;
\* fname is the handle's own file, or a file that does not exist yet
Saved(c, r) ==
    /\ call' = c
    /\ ret' = r
    /\ raw' = r.raw
    /\ outfile' = IF r.file = NoFile THEN outfile ELSE r.file
    /\ UNCHANGED <<directory, pc, k, loc, fid, item>>

Save ==
    /\ pc = "done"
    /\ \E fname \in {"raw.fif", "out.fif"}, proj_active \in {"True", "False", None} :
          /\ fname = raw.info.filename \/ outfile = NoFile
          /\ Saved([op |-> "save", fname |-> fname, proj_active |-> proj_active],
                   Raw_save(raw, fname, SelNone, 0, NoneInt, NSamp(raw) + 1,
                            FALSE, proj_active))

NextProj ==
    \/ UpdateProjector
    \/ AddProj
    \/ EditProjs
    \/ Save
    \/ ReadSegment
    \/ GetItem
    \/ Reload

SpecProj == InitProj /\ [][NextProj]_vars

\* ------------------------------ SpecData: the in-place operations on one
\* handle, next to the reads, save, add_proj and reload
InitData ==
    /\ directory = ProjDirectory
    /\ pc = "done"
    /\ k = Len(directory) + 1
    /\ loc = ScanDirectory(directory)
    /\ \E projs \in {<<>>, FileProjs}, proj \in BOOLEAN :
          raw = Opened(directory, projs, proj)
    /\ fid = "open"
    /\ call = Call("Raw", SelNone, 0, NoneInt)
    /\ ret = Raise(raw, None)
    /\ item = Call("item", <<0>>, 0, NoneInt)
    /\ outfile = NoFile

\* the call c returned or raised r and wrote no file
Done(c, r) ==
    /\ call' = c
    /\ ret' = r
    /\ raw' = r.raw
    /\ UNCHANGED <<directory, pc, k, loc, fid, item, outfile>>

\* no row of self._data has had MaxEdits writes yet
Editable == \A j \in 1..Len(raw._edits) : Len(raw._edits[j]) < MaxEdits

\* raw[sel, start:stop] = value
SetItem ==
    /\ pc = "done"
    /\ Editable
    /\ Done([item EXCEPT !.op = "setitem"],
            Raw__setitem__(raw, item.sel, item.start, item.stop))

PickLists == {<<0>>, <<0, NChan - 1>>, <<NChan - 1, 0>>}

\* raw.apply_function(fun, picks, dtype, n_jobs, verbose), fun raising on no
\* channel or on the last one
ApplyFunction ==
    /\ pc = "done"
    /\ Editable
    /\ \E picks \in PickLists, dtype \in {None, "complex64"}, n_jobs \in {1, 2},
          fails \in {{}, {NChan - 1}} :
          Done([op |-> "apply_function", picks |-> picks, dtype |-> dtype,
                n_jobs |-> n_jobs, fails |-> fails],
               Raw_apply_function(raw, Fun("fun", fails), picks, dtype, n_jobs))

\* raw.apply_hilbert(picks, envelope)
ApplyHilbert ==
    /\ pc = "done"
    /\ Editable
    /\ \E envelope \in BOOLEAN :
          Done([op |-> "apply_hilbert", envelope |-> envelope],
               Raw_apply_hilbert(raw, <<0>>, envelope, 1))

\* raw.filter(l_freq, h_freq): each cut-off None, 0 or 1 Hz
Filter ==
    /\ pc = "done"
    /\ Editable
    /\ \E l_freq \in {NoneInt, 0, 1}, h_freq \in {NoneInt, 0, 1} :
          Done([op |-> "filter", l_freq |-> l_freq, h_freq |-> h_freq],
               Raw_filter(raw, l_freq, h_freq, SelNone, 1))

\* raw.apply_projector(), while the operators multiplied into the
\* materialized columns are few
ApplyProjector ==
    /\ pc = "done"
    /\ \A j \in 1..Len(raw._data.cols) :
          Len(raw._data.cols[j].projector.mat) <= 2 * MaxEdits
    /\ Done([op |-> "apply_projector"], Raw_apply_projector(raw))

\* raw.save(fname, picks), whole recording in one buffer, to a new file
SavePicks ==
    /\ pc = "done"
    /\ outfile = NoFile
    /\ \E picks \in {SelNone, <<0>>} :
          Saved([op |-> "save", fname |-> "out.fif", picks |-> picks,
                 proj_active |-> None],
                Raw_save(raw, "out.fif", picks, 0, NoneInt, NSamp(raw) + 1,
                         FALSE, None))

NextData ==
    \/ SetItem
    \/ ApplyFunction
    \/ ApplyHilbert
    \/ Filter
    \/ ApplyProjector
    \/ SavePicks
    \/ AddProj
    \/ ReadSegment
    \/ GetItem
    \/ Reload

SpecData == InitData /\ [][NextData]_vars

\* ------------------------ SpecSave: save with every start, stop and buffer
\* length, on handles preloaded or not, and the file read back
SaveItems(r) ==
    {[op |-> "item", start |-> start, stop |-> stop,
      buffer_size |-> buffer_size, drop_small_buffer |-> drop_small_buffer] :
        start \in {0, 1},
        stop \in (1..NSamp(r)) \cup {NoneInt},
        buffer_size \in (1..3) \cup {NSamp(r) + 1},
        drop_small_buffer \in BOOLEAN}

InitSave ==
    /\ directory \in ReadDirectories
    /\ pc = "done"
    /\ k = Len(directory) + 1
    /\ loc = ScanDirectory(directory)
    /\ raw = Opened(directory, FileProjs, TRUE)
    /\ fid = "open"
    /\ call = Call("Raw", SelNone, 0, NoneInt)
    /\ ret = Raise(raw, None)
    /\ item \in SaveItems(raw)
    /\ outfile = NoFile

\* raw.save('out.fif', tmin=start, tmax=stop, buffer_size_sec=buffer_size,
\* drop_small_buffer=drop_small_buffer)
SaveItem ==
    /\ pc = "done"
    /\ Saved([item EXCEPT !.op = "save"],
             Raw_save(raw, "out.fif", SelNone, item.start, item.stop,
                      item.buffer_size, item.drop_small_buffer, None))

NextSave ==
    \/ SaveItem
    \/ Reload

SpecSave == InitSave /\ [][NextSave]_vars

\* ----------------------------------------- apply_function on its own
\* Raw(fname, proj=proj, preload=True)
InitApply ==
    /\ directory = ProjDirectory
    /\ pc = "done"
    /\ k = Len(directory) + 1
    /\ loc = ScanDirectory(directory)
    /\ \E projs \in {<<>>, FileProjs}, proj \in BOOLEAN :
          raw = Raw_reload(Opened(directory, projs, proj), TRUE).raw
    /\ fid = "open"
    /\ call = Call("Raw", SelNone, 0, NoneInt)
    /\ ret = Raise(raw, None)
    /\ item = Call("item", <<0>>, 0, NoneInt)
    /\ outfile = NoFile

NextApply ==
    \/ ApplyFunction
    \/ SetItem
    \/ Reload

SpecApply == InitApply /\ [][NextApply]_vars

\* ------------------------------------------ reads of a file gone bad
\* the recordings enumerated: those of ReadDirectories that hold samples
FailDirectories == {d \in ReadDirectories : NSamp(Opened(d, <<>>, FALSE)) >= 1}

InitFail ==
    /\ directory \in FailDirectories
    /\ pc = "done"
    /\ k = Len(directory) + 1
    /\ loc = ScanDirectory(directory)
    /\ \E proj \in BOOLEAN : raw = Opened(directory, FileProjs, proj)
    /\ fid = "open"
    /\ call = Call("Raw", SelNone, 0, NoneInt)
    /\ ret = Raise(raw, None)
    /\ item = Call("item", <<0>>, 0, NoneInt)
    /\ outfile = NoFile

\* the file behind raw.fid is damaged: from now on read_tag raises on one of
\* its data buffers
Damage ==
    /\ pc = "done"
    /\ raw.unreadable = {}
    /\ \E i \in 1..Len(raw.rawdir) :
          /\ raw.rawdir[i].ent.kind # None
          /\ raw' = [raw EXCEPT !.unreadable = {raw.rawdir[i].ent.pos}]
    /\ call' = [op |-> "damage"]
    /\ ret' = Raise(raw', None)
    /\ UNCHANGED <<directory, pc, k, loc, fid, item, outfile>>

NextFail ==
    \/ Damage
    \/ Reload
    \/ SetItem
    \/ GetItem
    \/ ReadSegment

SpecFail == InitFail /\ [][NextFail]_vars

\* the tag directory of the raw data block of a file save has written: the
\* first-sample tag, then one float or complex buffer per write_raw_buffer
FileDirectory(file) ==
    <<Ent(FIFF_FIRST_SAMPLE, FIFFT_INT, 4, file.first_samp)>>
        \o [i \in 1..Len(file.buffers) |->
              IF file.buffers[i].data.dtype = "complex64"
              THEN Ent(FIFF_DATA_BUFFER, FIFFT_COMPLEX_FLOAT,
                       8 * file.info.nchan * Len(file.buffers[i].data.cols), 0)
              ELSE Ent(FIFF_DATA_BUFFER, FIFFT_FLOAT,
                       4 * file.info.nchan * Len(file.buffers[i].data.cols), 0)]

\* Raw(file, proj=proj)
Reopen(file, proj) ==
    NewRaw(ScanDirectory(FileDirectory(file)),
           [file.info EXCEPT !.filename = file.fname], proj)

\* column j of a full-span read of the file opened as r: the column
\* write_raw_buffer stored, divided by the cals it was given, multiplied by
\* the cals of r and by the operator of the read
ReadBackColumn(file, r, col) ==
    [stored |-> file.buffers[col.ent].data.cols[col.off + 1],
     div |-> file.buffers[col.ent].cals,
     mul |-> r.cals,
     projector |-> col.projector]

ReadBack(file, rd) ==
    [err |-> rd.err,
     times |-> rd.times,
     cols |-> [j \in 1..Len(rd.data.cols) |->
                 ReadBackColumn(file, rd.raw, rd.data.cols[j])]]

FullSpan(r) == read_raw_segment(r, 0, NoneInt, SelNone, NoMatrix)

\* ------------------------------------------------------------ the claims
RECURSIVE SumNsamp(_)
SumNsamp(rawdir) ==
    IF Len(rawdir) = 0 THEN 0 ELSE Head(rawdir).nsamp + SumNsamp(Tail(rawdir))

Contiguous(rawdir, first_samp) ==
    /\ \A i \in 1..Len(rawdir) :
          rawdir[i].last - rawdir[i].first + 1 = rawdir[i].nsamp
    /\ Len(rawdir) > 0 => rawdir[1].first = first_samp
    /\ \A i \in 1..(Len(rawdir) - 1) : rawdir[i + 1].first = rawdir[i].last + 1

\* C1: every directory Raw.__init__ builds has last - first + 1 = nsamp in
\* each entry, starts at first_samp, has each entry begin right after the one
\* before it, and holds last_samp - first_samp + 1 samples in all.
C1_DirectoryInvariant ==
    pc = "done" =>
        /\ Contiguous(raw.rawdir, raw.first_samp)
        /\ SumNsamp(raw.rawdir) = raw.last_samp - raw.first_samp + 1

\* a directory that opens after an initial skip moved first_samp, with a skip
\* run in front of a buffer
C1_Witness ==
    /\ pc = "done"
    /\ raw.first_samp > 1
    /\ Len(raw.rawdir) >= 2
    /\ \E i \in 1..Len(raw.rawdir) :
          raw.rawdir[i].ent.kind = None /\ raw.rawdir[i].nsamp > 0

HasUnsupported(dir) ==
    \E i \in 1..Len(dir) :
        dir[i].kind = FIFF_DATA_BUFFER /\ dir[i].type \notin DecodableTypes

\* C7: a directory holding a data buffer of a type outside the five decodable
\* ones never yields a handle: the constructor goes on until it raises the
\* error for that tag, with the file closed, whatever precedes the tag.
C7_UnsupportedAborts ==
    HasUnsupported(directory) =>
        /\ pc # "done"
        /\ pc = "error" => ret.err = UnsupportedType /\ fid = "closed"
        /\ pc # "error" => ENABLED Next

\* the bad buffer is met after a skip and a good buffer were scanned
C7_Witness ==
    /\ pc = "error"
    /\ ret.err = UnsupportedType
    /\ fid = "closed"
    /\ Len(loc.rawdir) >= 2

\* a request with 0 <= start < stop <= N
InRecording(c, r) ==
    /\ c.stop # NoneInt
    /\ 0 <= c.start
    /\ c.start < c.stop
    /\ c.stop <= NSamp(r)

\* C2: a read with 0 <= start < stop <= N that returns, returns stop - start
\* columns and stop - start times, the j-th time being that of relative
\* sample start + j: stop is never moved upward.
C2_ExactlyStopMinusStart ==
    (call.op = "read_raw_segment" /\ InRecording(call, raw) /\ ret.err = None)
        => /\ Len(ret.data.cols) = call.stop - call.start
           /\ Len(ret.times) = call.stop - call.start
           /\ \A j \in 1..Len(ret.times) : ret.times[j] = call.start + j - 1

\* the call went through the loop of read_raw_segment and returned
SegmentRead ==
    /\ ret.err = None
    /\ \/ call.op \in {"read_raw_segment", "reload"}
       \/ call.op = "getitem" /\ ~raw._preloaded

\* the rawdir entries whose [first, last] holds the absolute sample s
EntriesOf(rawdir, s) ==
    {i \in 1..Len(rawdir) : rawdir[i].first <= s /\ s <= rawdir[i].last}

StartsInSkip(c, r) ==
    \E i \in EntriesOf(r.rawdir, r.first_samp + c.start) :
        r.rawdir[i].ent.kind = None

\* C4: a read whose window starts in a skip run returns, with zeros in the
\* columns of the skip run.
C4_SkipFirstReadReturns ==
    (call.op = "read_raw_segment" /\ InRecording(call, raw)
         /\ Len(call.sel) > 0 /\ StartsInSkip(call, raw))
        => /\ ret.err = None
           /\ ret.data.cols[1].val = "zero"

\* C5: a request with start = stop raises the no-data error, from
\* read_raw_segment and from indexing, preloaded or not.
C5_EmptyWindowRaises ==
    (call.op \in {"read_raw_segment", "getitem"} /\ Len(call.sel) > 0
         /\ call.start = call.stop)
        => ret.err = NoData

\* C6: a request for a channel selection of length 0 raises the
\* empty-selection error, from read_raw_segment and from indexing.
C6_EmptySelectionRaises ==
    (call.op \in {"read_raw_segment", "getitem"} /\ InRecording(call, raw)
         /\ Len(call.sel) = 0)
        => ret.err = EmptySel

\* ------------------------------------------------- claims under SpecProj
\* the stored hash is the hash of the list and the operator the handle holds
CacheValid(r) == _hash_projs(r.info.projs, r._projector) = r._projector_hash

\* the calls that run _update_projector and leave info['projs'] alone
UsesProjector == {"_update_projector", "read_raw_segment", "getitem", "reload"}

\* the call recomputed nothing: setup_proj did not run, the operator and the
\* stored hash are the ones held before
NoRecompute ==
    /\ ret'.setups = 0
    /\ raw'._projector = raw._projector
    /\ raw'._projector_hash = raw._projector_hash

\* C8: a call of _update_projector, or a read, that follows _update_projector
\* or add_proj with no change of the list in between recomputes nothing;
\* add_proj appending one vector to a handle whose cache is valid runs
\* setup_proj exactly once; and from a valid cache every read or
\* _update_projector call recomputes nothing and leaves the cache valid.
C8_NoRecomputeWithoutChange ==
    [][/\ (call.op \in {"_update_projector", "add_proj"}
              /\ call'.op \in UsesProjector) => NoRecompute
       /\ (CacheValid(raw) /\ call'.op = "add_proj"
              /\ Len(raw'.info.projs) = Len(raw.info.projs) + 1)
             => ret'.setups = 1
       /\ (CacheValid(raw) /\ call'.op \in UsesProjector)
             => NoRecompute /\ CacheValid(raw')]_vars

\* add_proj has appended an active vector and built the operator from it
C8_Witness ==
    /\ call.op = "add_proj"
    /\ ~call.remove_existing
    /\ ret.setups = 1
    /\ ~raw._projector.none
    /\ CacheValid(raw)

\* C9: a read of a handle with proj on that returns has applied to every
\* column the operator setup_proj builds from the list the handle holds now.
C9_ReadUsesCurrentList ==
    (call.op = "read_raw_segment" /\ ret.err = None /\ raw.proj)
        => \A j \in 1..Len(ret.data.cols) :
              ret.data.cols[j].projector = setup_proj(raw.info).projector

\* C10: indexing a preloaded handle with proj on whose buffer was computed
\* with another operator than the one the handle holds now raises the
\* projection-changed error.
C10_ChangeAfterPreloadRaises ==
    (call.op = "getitem" /\ Len(call.sel) > 0 /\ raw._preloaded /\ raw.proj
         /\ \E j \in 1..Len(raw._data.cols) :
               raw._data.cols[j].projector # raw._projector)
        => ret.err = ProjChanged

\* ------------------------------------------------- claims under SpecData
InPlaceOps == {"setitem", "apply_function", "apply_hilbert", "filter"}

\* C11: on a handle that is not preloaded, indexed assignment, apply_function,
\* apply_hilbert and filter, with any cut-offs, raise the not-preloaded error
\* and leave the handle as it was.
C11_InPlaceNeedsPreload ==
    [][(~raw._preloaded /\ call'.op \in InPlaceOps)
          => /\ ret'.err \in {NotPreloaded, NotPreloadedSet}
             /\ raw' = raw]_vars

\* C12: save to the path the handle was opened from raises the same-file
\* error before any effect: no file is written, no buffer is read, setup_proj
\* is not run, and the handle, its projs and metadata included, is as it was.
C12_SameFileNoEffect ==
    [][(call'.op = "save" /\ call'.fname = raw.info.filename)
          => /\ ret'.err = SameFile
             /\ ret'.file = NoFile
             /\ outfile' = outfile
             /\ ret'.decoded = <<>>
             /\ ret'.setups = 0
             /\ raw' = raw]_vars

\* the save refused was one that would have deactivated an active vector
C12_Witness ==
    /\ call.op = "save"
    /\ call.fname = raw.info.filename
    /\ call.proj_active = "False"
    /\ ret.err = SameFile
    /\ \E i \in 1..Len(raw.info.projs) : raw.info.projs[i].active

\* ------------------------------------------------- claims under SpecSave
\* the columns of the whole recording as the handle gives them
Original(r) == IF r._preloaded THEN r._data.cols ELSE FullSpan(r).data.cols

\* the value read back is the value of the original column: the same column
\* was stored, and it is a column of zeros or the cals multiplied in are the
\* cals divided out and the operator of the second read, if any, is the one
\* already applied
SameValue(rb, orig) ==
    /\ rb.stored = orig
    /\ \/ orig.val = "zero"
       \/ /\ rb.div = rb.mul
          /\ rb.projector.none \/ rb.projector = orig.projector

\* the whole recording was saved with one buffer longer than it
WholeSaved ==
    /\ call.op = "save"
    /\ call.start = 0
    /\ call.stop = NoneInt
    /\ call.buffer_size > NSamp(raw)
    /\ NSamp(raw) >= 1

RoundTrip(file, r2) ==
    /\ file.finished
    /\ r2.first_samp = raw.first_samp
    /\ NSamp(r2) = NSamp(raw)
    /\ FullSpan(r2).err = None
    /\ Len(FullSpan(r2).data.cols) = NSamp(raw)
    /\ \A j \in 1..NSamp(raw) :
          SameValue(ReadBack(file, FullSpan(r2)).cols[j], Original(raw)[j])

\* C13: after the whole recording was saved to a new file with a buffer
\* longer than the recording, the file opened and read over its full span has
\* the first_samp, the number of samples and, column by column, the values of
\* the original.
C13_RoundTrip ==
    WholeSaved => ret.err = None /\ RoundTrip(outfile, Reopen(outfile, raw.proj))

\* ------------------------------------------------ claims about two reads
\* C14: a read of the window and channels of the read made just before it,
\* by read_raw_segment or by indexing, raises or returns what that read did,
\* matrix and time vector, and leaves the handle as that read left it.  (The
\* indexing that raised the projection-changed error is the case of C29.)
C14_RereadIdentical ==
    [][(call' = call /\ call.op \in {"read_raw_segment", "getitem"}
           /\ ret.err # ProjChanged)
          => /\ ret'.err = ret.err
             /\ ret'.data = ret.data
             /\ ret'.times = ret.times
             /\ raw' = raw]_vars

\* a read has returned columns with the operator applied
C14_Witness ==
    /\ call.op = "read_raw_segment"
    /\ ret.err = None
    /\ ret.setups = 0
    /\ Len(ret.data.cols) = NSamp(raw)
    /\ \A j \in 1..Len(ret.data.cols) :
          /\ ~ret.data.cols[j].projector.none
          /\ ret.data.cols[j].projector = raw._projector

\* C15: a save with drop_small_buffer writes no buffer of fewer samples than
\* the buffer length it was given, also when the range saved is shorter than
\* one buffer.
C15_NoShortBufferWritten ==
    (call.op = "save" /\ call.drop_small_buffer)
        => \A i \in 1..Len(ret.file.buffers) :
              Len(ret.file.buffers[i].data.cols) >= call.buffer_size

\* the samples of the recording, counted from 0, held by the columns of the
\* buffers of a file, in the order written
RECURSIVE WrittenSamples(_, _)
WrittenSamples(buffers, r) ==
    IF Len(buffers) = 0 THEN <<>>
    ELSE [j \in 1..Len(Head(buffers).data.cols) |->
            r.rawdir[Head(buffers).data.cols[j].ent].first
                + Head(buffers).data.cols[j].off - r.first_samp]
             \o WrittenSamples(Tail(buffers), r)

\* the first sample past the range asked for: the end of the recording, or
\* tmax
RequestedStop(c, r) ==
    IF c.stop = NoneInt THEN NSamp(r) ELSE Min(c.stop, NSamp(r))

\* C18: a save without drop_small_buffer that returns has written the
\* first-sample tag first_samp + start and buffers whose columns, in order,
\* are the samples start, start + 1, ... one by one, none twice and none left
\* out, up to the end asked for.
C18_BuffersPartitionRange ==
    (call.op = "save" /\ ~call.drop_small_buffer /\ ret.err = None
         /\ call.start < RequestedStop(call, raw))
        => /\ ret.file.first_samp = raw.first_samp + call.start
           /\ Len(WrittenSamples(ret.file.buffers, raw))
                 >= RequestedStop(call, raw) - call.start
           /\ \A j \in 1..Len(WrittenSamples(ret.file.buffers, raw)) :
                 WrittenSamples(ret.file.buffers, raw)[j] = call.start + j - 1

\* ----------------------------------------- claims about the handle's frame
\* C16: in every state of a handle the calibration vector is range * cal of
\* the handle's own channel metadata, channel by channel.
C16_CalsAreRangeTimesCal ==
    /\ Len(raw.cals) = raw.info.nchan
    /\ \A j \in 1..raw.info.nchan :
          raw.cals[j] = raw.info.chs[j].range * raw.info.chs[j].cal

\* C17: no operation on an opened handle changes rawdir, first_samp,
\* last_samp or cals.
C17_DirectoryAndCalsFrozen ==
    [][/\ raw'.rawdir = raw.rawdir
       /\ raw'.first_samp = raw.first_samp
       /\ raw'.last_samp = raw.last_samp
       /\ raw'.cals = raw.cals]_vars

\* a preloaded handle, written to in place, has been saved whole
C17_Witness ==
    /\ call.op = "save"
    /\ call.picks = SelNone
    /\ ret.err = None
    /\ outfile.finished
    /\ raw._preloaded
    /\ \E j \in 1..Len(raw._edits) : Len(raw._edits[j]) > 0
    /\ raw.rawdir = ScanDirectory(directory).rawdir
    /\ raw.cals = Opened(directory, <<>>, FALSE).cals

\* ---------------------------------------------- claims about empty files
\* the tag stream has no data buffer: the scan yields no directory entry
NoBuffers(dir) == \A i \in 1..Len(dir) : dir[i].kind # FIFF_DATA_BUFFER

\* C19: Raw.__init__ on a tag stream without data buffers, once it is over,
\* has returned a handle with an empty rawdir and last_samp = first_samp - 1,
\* and a read of that handle raises the no-data error.
C19_EmptyRecordingOpens ==
    (NoBuffers(directory) /\ pc \in {"done", "error"})
        => /\ pc = "done"
           /\ raw.rawdir = <<>>
           /\ raw.last_samp = raw.first_samp - 1
           /\ FullSpan(raw).err = NoData

\* ------------------------------------- claims about a failing channel
\* the picks of c that fun has completed when it raises: those before the
\* first channel it fails on
Completed(c) ==
    {i \in 1..Len(c.picks) : \A h \in 1..i : c.picks[h] \notin c.fails}

\* row ch of the buffer after the step is the row before it with the result
\* of fun stored over the whole of it
Committed(ch) ==
    raw'._edits[ch + 1] =
        Result(Fun("fun", {}), RowOf(raw._edits, ch, Len(raw._data.cols)))

\* C20: when apply_function raises the exception of fun, the results of the
\* channels completed before the failing one are stored in the buffer, with
\* n_jobs == 1 and with n_jobs > 1.
C20_CompletedChannelsCommitted ==
    [][(call'.op = "apply_function" /\ ret'.err = FunFailed)
           => \A i \in Completed(call') : Committed(call'.picks[i])]_vars

\* --------------------------------------- claims about a failing read
\* some row of self._data was written in place since it was read whole
Modified(r) ==
    \E j \in 1..Len(r._edits) :
       \E i \in 1..Len(r._edits[j]) : r._edits[j][i].fun # "reload"

\* C21: a read in which read_tag raises returns no matrix and no times, and
\* when it was filling the buffer of a handle already materialized, whose
\* rows had been written in place, the buffer is as it was before, or the
\* handle is no longer marked materialized.
C21_FailedReadLeavesNoMix ==
    [][ret'.err = ReadTagError
          => /\ ret'.data = NoMatrix
             /\ ret'.times = <<>>
             /\ (raw._preloaded /\ Modified(raw) /\ raw'._preloaded)
                   => /\ raw'._data = raw._data
                      /\ raw'._edits = raw._edits]_vars

\* ------------------------------- claims about the order of the workers
\* the handle apply_function leaves when it runs the channels one by one
Sequential(c) ==
    Raw_apply_function(raw, Fun("fun", c.fails), c.picks, c.dtype, 1).raw

\* the handle apply_function leaves when the workers complete in order o
Pooled(c, o) ==
    StoreRows(AsType(raw, c.dtype), c.picks,
              parallel(Fun("fun", c.fails), DataPicks(raw, c.picks), o))

\* channel ch is one of the picks of c
Picked(c, ch) == \E i \in 1..Len(c.picks) : c.picks[i] = ch

C23_BuffersOfNominalLength ==
    (call.op = "save" /\ ret.err = None)
        => \A i \in 1..Len(ret.file.buffers) :
              /\ Len(ret.file.buffers[i].data.cols) <= call.buffer_size
              /\ i < Len(ret.file.buffers)
                    => Len(ret.file.buffers[i].data.cols) = call.buffer_size

\* ------------------------------------- claims about the skips of the scan
\* the index of the tag after the optional first-sample tag, and the value
\* of that tag
AfterFirstSample(dir) ==
    IF Len(dir) > 0 /\ dir[1].kind = FIFF_FIRST_SAMPLE THEN 2 ELSE 1
FirstSampleValue(dir) ==
    IF Len(dir) > 0 /\ dir[1].kind = FIFF_FIRST_SAMPLE THEN dir[1].data ELSE 0

\* the tag after the optional first-sample tag is a skip marker
HasInitialSkip(dir) ==
    /\ AfterFirstSample(dir) <= Len(dir)
    /\ dir[AfterFirstSample(dir)].kind = FIFF_DATA_SKIP
InitialSkipCount(dir) == dir[AfterFirstSample(dir)].data

\* the data buffers the loop has passed when it is at index i
BuffersSeen(dir, i) ==
    {b \in (AfterFirstSample(dir) + 1)..(i - 1) : dir[b].kind = FIFF_DATA_BUFFER}
FirstBuffer(dir, i) ==
    CHOOSE b \in BuffersSeen(dir, i) : \A c \in BuffersSeen(dir, i) : b <= c

\* C24: with a skip marker of count s right after the optional first-sample
\* tag, as long as the loop has passed no data buffer the skip is pending,
\* rawdir is empty and first_samp is the first-sample value; from the first
\* data buffer, of n samples, on, first_samp is that value + s * n, nothing
\* is pending, and rawdir starts at first_samp.
C24_InitialSkipDeferred ==
    (pc \in {"loop", "done"} /\ HasInitialSkip(directory))
        => IF BuffersSeen(directory, k) = {}
           THEN /\ raw.first_samp = FirstSampleValue(directory)
                /\ loc.first_skip = InitialSkipCount(directory)
                /\ loc.rawdir = <<>>
           ELSE /\ raw.first_samp =
                      FirstSampleValue(directory)
                          + InitialSkipCount(directory)
                              * NsampOf(directory[FirstBuffer(directory, k)], NChan)
                /\ loc.first_skip = 0
                /\ loc.rawdir[1].first = raw.first_samp

\* an initial skip was folded into first_samp and a second buffer came after
C24_Witness ==
    /\ pc = "done"
    /\ HasInitialSkip(directory)
    /\ InitialSkipCount(directory) > 0
    /\ Cardinality(BuffersSeen(directory, k)) > 1
    /\ \A b \in BuffersSeen(directory, k) : NsampOf(directory[b], NChan) > 0
    /\ raw.first_samp > FirstSampleValue(directory)

\* the loop passes the data buffer at index k in this step
BufferPassed ==
    /\ pc = "loop"
    /\ pc' = "loop"
    /\ k' = k + 1
    /\ directory[k].kind = FIFF_DATA_BUFFER

\* the entries the step has appended to rawdir
Emitted == SubSeq(loc'.rawdir, Len(loc.rawdir) + 1, Len(loc'.rawdir))

\* e is the entry of the data buffer at index k, starting at sample first
IsBufferEntry(e, first) ==
    /\ e.ent.kind = FIFF_DATA_BUFFER
    /\ e.ent.pos = k
    /\ e.nsamp = NsampOf(directory[k], NChan)
    /\ e.first = first

\* C25: a data buffer of n samples passed with a skip count c > 0 pending
\* appends one skip-run entry of c * n samples and then the buffer's entry,
\* and clears the count; passed with no skip pending it appends its entry
\* alone; no other step appends an entry, so every skip-run entry has a
\* buffer entry right after it.
C25_SkipRunBeforeBuffer ==
    [][/\ BufferPassed /\ loc.nskip > 0
          => /\ Len(Emitted) = 2
             /\ Emitted[1].ent = NoEnt
             /\ Emitted[1].nsamp
                   = loc.nskip * NsampOf(directory[k], NChan)
             /\ IsBufferEntry(Emitted[2], Emitted[1].last + 1)
             /\ loc'.nskip = 0
       /\ BufferPassed /\ loc.nskip = 0
          => /\ Len(Emitted) = 1
             /\ IsBufferEntry(Emitted[1], loc'.rawdir[Len(loc'.rawdir)].first)
             /\ loc'.nskip = 0
       /\ ~BufferPassed => loc'.rawdir = loc.rawdir
       /\ \A i \in 1..Len(loc'.rawdir) :
             loc'.rawdir[i].ent = NoEnt
                 => /\ i < Len(loc'.rawdir)
                    /\ loc'.rawdir[i + 1].ent.kind = FIFF_DATA_BUFFER]_vars

\* no skip run was emitted before the first of two buffers and one before
\* the second
C25_Witness ==
    /\ pc = "done"
    /\ Len(raw.rawdir) = 3
    /\ raw.rawdir[1].ent.kind = FIFF_DATA_BUFFER
    /\ raw.rawdir[2].ent = NoEnt
    /\ raw.rawdir[2].nsamp > 0
    /\ raw.rawdir[3].ent.kind = FIFF_DATA_BUFFER

\* the loop passes the skip marker at index k in this step
SkipPassed ==
    /\ pc = "loop"
    /\ k <= Len(directory)
    /\ directory[k].kind = FIFF_DATA_SKIP
    /\ <<pc, k, loc>>' # <<pc, k, loc>>

\* the directory without its last tag
ButLast(dir) == SubSeq(dir, 1, Len(dir) - 1)

\* the directory ends with a skip marker met in the loop
EndsWithSkip(dir) ==
    /\ Len(dir) > AfterFirstSample(dir)
    /\ dir[Len(dir)].kind = FIFF_DATA_SKIP
    /\ \/ ~HasInitialSkip(dir)
       \/ Len(dir) > AfterFirstSample(dir) + 1

\* C28: a skip marker met in the loop raises nothing, emits nothing and makes
\* its count the pending one whatever count was pending; a handle opened on
\* a directory that ends with such a marker has the rawdir, first_samp and
\* last_samp of the directory without it.
C28_OnePendingSkip ==
    [][/\ SkipPassed
          => /\ pc' = "loop"
             /\ k' = k + 1
             /\ loc'.nskip = directory[k].data
             /\ loc' = [loc EXCEPT !.nskip = directory[k].data]
       /\ (pc' = "done" /\ EndsWithSkip(directory))
          => /\ raw'.rawdir = ScanDirectory(ButLast(directory)).rawdir
             /\ raw'.first_samp = ScanDirectory(ButLast(directory)).self_first_samp
             /\ raw'.last_samp = ScanDirectory(ButLast(directory)).first_samp - 1]_vars

\* two skip markers of different counts were passed one after the other, and
\* the recording was opened
C28_Witness ==
    /\ pc = "done"
    /\ EndsWithSkip(directory)
    /\ EndsWithSkip(ButLast(directory))
    /\ directory[Len(directory) - 1].data > directory[Len(directory)].data
    /\ directory[Len(directory)].data > 0
    /\ loc.nskip = directory[Len(directory)].data

\* ------------------------------------ claims about the buffers decoded
\* the window, in absolute samples, that the loop of a read called as c
\* works on
LoopStart(c, r) == c.start + r.first_samp
LoopStop(c, r) ==
    ClampStop(r, (IF c.stop = NoneInt THEN r.last_samp + 1 ELSE c.stop)
                    + r.first_samp)

Unloaded(c) ==
    Raw__getitem__(NewRaw(ScanDirectory(directory), raw.info, raw.proj),
                   c.sel, c.start, c.stop)

\* C27: raw[sel, start:stop] with 0 <= start < stop <= N on a handle
\* materialized by reload and not written to since returns the matrix and
\* the times that the same item returns on a handle of the same recording
\* that is not materialized.
C27_MaterializedReadsAlike ==
    (call.op = "getitem" /\ raw._preloaded /\ ~Modified(raw)
         /\ call.stop # NoneInt /\ 0 <= call.start /\ call.start < call.stop
         /\ call.stop <= NSamp(raw) /\ Len(call.sel) > 0)
        => /\ ret.err = None
           /\ Unloaded(call).err = None
           /\ Len(Unloaded(call).data.cols) = Len(ret.data.cols)
           /\ Unloaded(call).data.cols = ret.data.cols
           /\ Unloaded(call).times = ret.times

\* C29: an indexed read that comes right after an indexed read that raised
\* the projection-changed error, with no reload between them, raises it too.
C29_ProjChangedPersists ==
    [][(call.op = "getitem" /\ ret.err = ProjChanged /\ call'.op = "getitem")
          => ret'.err = ProjChanged]_vars

\* ------------------------------- claims about the projections of a file
\* every projection vector of the file is marked inactive
AllInactive(file) ==
    \A i \in 1..Len(file.info.projs) : ~file.info.projs[i].active

\* C30: in a file that save has written, no sample was read with the
\* projection operator applied while the vectors of the file are all marked
\* inactive.
C30_SavedFlagsMatchData ==
    (call.op = "save" /\ ret.err = None)
        => \A b \in 1..Len(ret.file.buffers) :
              \A j \in 1..Len(ret.file.buffers[b].data.cols) :
                 ~ret.file.buffers[b].data.cols[j].projector.none
                     => ~AllInactive(ret.file)

====
